---- MODULE Spec2Model ----
(***************************************************************************)
(* PaperMind desktop launcher (src-tauri/src/main.rs): the host persists a  *)
(* two-field launcher configuration, starts the Python backend as a child   *)
(* process, learns its port from the first JSON line on the child's stdout, *)
(* publishes port and pid in AppState, and then forwards the child's output *)
(* from a background task until a stream ends or the child exits.           *)
(***************************************************************************)
EXTENDS Integers, Sequences, FiniteSets, TLC

(* ------------------------------ bounds -------------------------------- *)

\* start requests of one host run in the host-level specification (Spec)
MaxStarts == 2
\* lines a worker writes on stdout / stderr in the host-level specification
MaxOut == 1
MaxErr == 1
\* lines a worker writes on stdout / stderr in the single-worker specification
MaxOutIO == 2
MaxErrIO == 1
\* lines a worker writes on stdout / stderr in the liveness specification
MaxOutLive == 3
MaxErrLive == 2

(* --------------------------- program constants ------------------------ *)

\* `p as u16` keeps the low 16 bits of the u64
U16Modulus == 65536

\* Option<T>: None is the empty tuple, Some(x) the one-element tuple
None == << >>
Some(x) == << x >>
IsSome(o) == o /= << >>
Unwrap(o) == o[1]

(* ------------------------------ lines ---------------------------------- *)
\* A line of a pipe, by what its bytes decode to:
\*   utf8  whether the bytes are valid UTF-8 (next_line is Err otherwise)
\*   pad   whether blanks surround the text (removed by trim)
\*   j     "text" (not JSON), "object" (a JSON object), "scalar" (other JSON)
\*   port  the value under the key "port" of an object, if any:
\*         t = "int" (an integer literal that fits i64/u64, n its value),
\*         "float" (a literal with a fraction or an exponent, or beyond 64 bits)
JInt(n) == [t |-> "int", n |-> n]
JFloat == [t |-> "float", n |-> 0]
MkLine(j, port, pad) == [utf8 |-> TRUE, pad |-> pad, j |-> j, port |-> port]

TextLine == MkLine("text", None, FALSE)
PaddedTextLine == MkLine("text", None, TRUE)
NoPortLine == MkLine("object", None, FALSE)
FloatPortLine == MkLine("object", Some(JFloat), FALSE)
NegPortLine == MkLine("object", Some(JInt(-1)), FALSE)
PortLine(n) == MkLine("object", Some(JInt(n)), FALSE)
PaddedPortLine(n) == MkLine("object", Some(JInt(n)), TRUE)
BadUtf8Line == [utf8 |-> FALSE, pad |-> FALSE, j |-> "text", port |-> None]

\* str::trim
trim(text) == [text EXCEPT !.pad = FALSE]

\* serde_json::from_str::<Value>: Some(value) when the text is one JSON value.
\* serde_json skips JSON whitespace around the value itself.
from_str(text) == IF text.j = "text" THEN None ELSE Some(text)

\* Value::get("port"): only an object has keys
get_port(value) == IF value.j = "object" THEN value.port ELSE None

\* Value::as_u64: only a non-negative integer literal
as_u64(v) == IF v.t = "int" /\ v.n >= 0 THEN Some(v.n) ELSE None

\* `p as u16`
as_u16(p) == p % U16Modulus

\* the port a stdout line announces, if it is a handshake line (lines 173-177)
handshake_port(text) ==
    LET info == from_str(trim(text)) IN
    IF ~IsSome(info) THEN None
    ELSE LET v == get_port(Unwrap(info)) IN
         IF ~IsSome(v) THEN None
         ELSE LET p == as_u64(Unwrap(v)) IN
              IF IsSome(p) THEN Some(as_u16(Unwrap(p))) ELSE None

(* --------------------------- configuration ----------------------------- *)
\* LauncherConfig values the host is given
LauncherConfig(data_dir, env_file) == [data_dir |-> data_dir, env_file |-> env_file]
AllConfigs == {LauncherConfig("d1", "e1"), LauncherConfig("d2", "e2")}

\* content of launcher.json: what serde_json::to_string_pretty writes, or
\* anything else (not a LauncherConfig document)
to_string_pretty(config) ==
    [json |-> TRUE, data_dir |-> config.data_dir, env_file |-> config.env_file]
MalformedDoc == [json |-> FALSE, data_dir |-> "", env_file |-> ""]
from_str_config(content) ==
    IF content.json THEN Some(LauncherConfig(content.data_dir, content.env_file))
    ELSE None

(* ------------------------------- state --------------------------------- *)
VARIABLES
    scope,            \* what the run explores: "host", "io", "live" or "config"
                      \* (see Init*)
    phase,            \* "boot" (before setup), "running", "down" (host torn down)
    file,             \* Option: content of launcher.json
    launcher_config,  \* AppState.launcher_config
    api_port,         \* AppState.api_port
    child_pid,        \* AppState.child_pid
    portOwner,        \* the start attempt that wrote api_port (0: none)
    nAtt,             \* start attempts begun so far
    att,              \* per start attempt: the supervisor's side
    wk,               \* per start attempt: the worker process and its pipes
    log,              \* per start attempt: what eprintln! wrote for it, in order
    events            \* per start attempt: what app.emit sent for it, in order

vars == << scope, phase, file, launcher_config, api_port, child_pid, portOwner,
           nAtt, att, wk, log, events >>

Att == 1..MaxStarts

\* the configurations the user enters
Configs == IF scope = "config" THEN AllConfigs ELSE {LauncherConfig("d1", "e1")}

OneWorker == scope \in {"io", "live", "config"}
StartBudget == IF OneWorker THEN 1 ELSE MaxStarts
OutBudget ==
    CASE scope = "io" -> MaxOutIO [] scope = "live" -> MaxOutLive [] OTHER -> MaxOut
ErrBudget ==
    CASE scope = "io" -> MaxErrIO [] scope = "live" -> MaxErrLive [] OTHER -> MaxErr

\* what a worker may write on stdout and on stderr
StdoutLines ==
    CASE scope = "io" -> {PaddedTextLine, PaddedPortLine(5173), PortLine(70709),
                          PortLine(8080), NegPortLine, FloatPortLine, NoPortLine,
                          BadUtf8Line}
      [] scope = "live" -> {PaddedTextLine, NoPortLine, PaddedPortLine(5173)}
      [] OTHER -> {TextLine, PortLine(5173), PortLine(8080)}
StderrLines ==
    CASE scope = "io" -> {PaddedTextLine, PortLine(9999), BadUtf8Line}
      [] scope = "live" -> {PaddedTextLine, BadUtf8Line}
      [] OTHER -> {TextLine}
ExitStatuses == {0, 1}

NoRet == [tag |-> "none", port |-> 0, err |-> ""]
OkRet(port) == [tag |-> "Ok", port |-> port, err |-> ""]
ErrRet(e) == [tag |-> "Err", port |-> 0, err |-> e]

IdleAtt ==
    [origin |-> "none", pc |-> "idle", cfg |-> None, pid |-> None,
     port |-> None, bind |-> 0, ret |-> NoRet, handle |-> "none"]
NoWorker ==
    [proc |-> "none", status |-> 0, env |-> None,
     out |-> << >>, outClosed |-> FALSE, outRead |-> 0,
     err |-> << >>, errClosed |-> FALSE, errRead |-> 0]

\* the OS process id of the a-th child
PidOf(a) == 1000 + a

\* log entries and host events
LogEntry(tag, text, n) == [tag |-> tag, text |-> text, n |-> n]
Note(tag, n) == LogEntry(tag, TextLine, n)
Event(name, port, err) == [name |-> name, port |-> port, err |-> err]

(* ------------------------- ConfigStore (lines 38-52) ------------------- *)
read_launcher_config ==
    IF ~IsSome(file) THEN None ELSE from_str_config(Unwrap(file))

\* a needs_setup that only asks whether launcher.json exists
needs_setup_file_missing == ~IsSome(file)
needs_setup == ~IsSome(read_launcher_config)
get_api_port == api_port
get_launcher_config == launcher_config

InitCommon(files) ==
    /\ phase = "boot"
    /\ file \in files
    /\ launcher_config = read_launcher_config
    /\ api_port = None
    /\ child_pid = None
    /\ portOwner = 0
    /\ nAtt = 0
    /\ att = [a \in Att |-> IdleAtt]
    /\ wk = [a \in Att |-> NoWorker]
    /\ log = [a \in Att |-> << >>]
    /\ events = [a \in Att |-> << >>]

\* launcher.json at startup: missing, unparsable, or written by an earlier run
Init ==
    /\ scope = "host"
    /\ InitCommon({None, Some(MalformedDoc)}
                  \cup {Some(to_string_pretty(c)) : c \in Configs})
InitIO ==
    /\ scope = "io"
    /\ InitCommon({None} \cup {Some(to_string_pretty(c)) : c \in Configs})
InitLive ==
    /\ scope = "live"
    /\ InitCommon({None} \cup {Some(to_string_pretty(c)) : c \in Configs})
InitCfg ==
    /\ scope = "config"
    /\ InitCommon({None, Some(MalformedDoc)}
                  \cup {Some(to_string_pretty(c)) : c \in Configs})

(* ------------------- ConfigStore: write (lines 47-52) ------------------ *)
\* fs::write either replaces the content, or fails leaving the file as it was
\* ("denied") or truncated ("partial")
WriteOutcomes == {"ok", "denied", "partial"}
\* a write that appends to the content already there: two documents in a row
\* are no configuration record
write_launcher_config_appending(config, outcome) ==
    CASE outcome = "ok" ->
             IF IsSome(file) THEN Some(MalformedDoc) ELSE Some(to_string_pretty(config))
      [] outcome = "denied" -> file
      [] outcome = "partial" -> Some(MalformedDoc)

write_launcher_config(config, outcome) ==
    CASE outcome = "ok" -> Some(to_string_pretty(config))
      [] outcome = "denied" -> file
      [] outcome = "partial" -> Some(MalformedDoc)

(* --------------------- the process handle (line 142) ------------------- *)
kill_on_drop_off == FALSE
kill_on_drop == TRUE

KillWorker(w) ==
    IF w.proc = "running"
    THEN [w EXCEPT !.proc = "killed", !.outClosed = TRUE, !.errClosed = TRUE]
    ELSE w

\* dropping tokio's Child
DropChild(w) == IF kill_on_drop THEN KillWorker(w) ELSE w

(* ------------- how a start attempt's error reaches the host ------------ *)
\* main's setup task logs the error and emits backend-error (lines 265-268);
\* save_config_and_start hands it back as the command's result (line 110)
LogAfterErr(a, base) ==
    IF att[a].origin = "auto" THEN Append(base, Note("Failed to start backend", 0))
    ELSE base
EventsAfterErr_silent(a, e) == events[a]
EventsAfterErr(a, e) ==
    IF att[a].origin = "auto"
    THEN Append(events[a], Event("backend-error", 0, e))
    ELSE events[a]
\* main's setup task logs the port on success (lines 262-264)
LogAfterOk(a, base, port) ==
    IF att[a].origin = "auto" THEN Append(base, Note("Backend started on port", port))
    ELSE base

\* an Err return that leaves the child to itself: the handle is kept from being
\* dropped
FailAttempt_leaking(a, e, w, base) ==
    /\ att' = [att EXCEPT ![a] = [@ EXCEPT !.pc = "failed", !.ret = ErrRet(e),
                 !.handle = IF @ = "none" THEN "none" ELSE "dropped"]]
    /\ wk' = [wk EXCEPT ![a] = w]
    /\ log' = [log EXCEPT ![a] = LogAfterErr(a, base)]
    /\ events' = [events EXCEPT ![a] = EventsAfterErr(a, e)]

\* start_backend returns Err(e): its locals are dropped, the child among them
FailAttempt(a, e, w, base) ==
    /\ att' = [att EXCEPT ![a] = [@ EXCEPT !.pc = "failed", !.ret = ErrRet(e),
                 !.handle = IF @ = "none" THEN "none" ELSE "dropped"]]
    /\ wk' = [wk EXCEPT ![a] = IF att[a].handle = "none" THEN w ELSE DropChild(w)]
    /\ log' = [log EXCEPT ![a] = LogAfterErr(a, base)]
    /\ events' = [events EXCEPT ![a] = EventsAfterErr(a, e)]

(* --------------------------- main (lines 236-277) ---------------------- *)
\* setup: with a stored configuration, spawn the task that starts the backend
Setup ==
    /\ phase = "boot"
    /\ phase' = "running"
    /\ LET config == read_launcher_config IN
       IF IsSome(config)
       THEN /\ nAtt' = nAtt + 1
            /\ att' = [att EXCEPT ![nAtt + 1] =
                         [@ EXCEPT !.origin = "auto", !.pc = "start", !.cfg = config]]
       ELSE UNCHANGED << nAtt, att >>
    /\ UNCHANGED << scope, file, launcher_config, api_port, child_pid, portOwner,
                    wk, log, events >>

(* ------------------- save_config_and_start (lines 96-111) -------------- *)
\* a command that starts the backend whatever the write returned
save_config_and_start_ignoring_write(config, outcome) ==
    /\ phase = "running"
    /\ nAtt < StartBudget
    /\ nAtt' = nAtt + 1
    /\ file' = write_launcher_config(config, outcome)
    /\ launcher_config' = Some(config)
    /\ att' = [att EXCEPT ![nAtt + 1] =
                 [@ EXCEPT !.origin = "cmd", !.pc = "start", !.cfg = Some(config)]]
    /\ UNCHANGED << scope, phase, api_port, child_pid, portOwner, wk, log, events >>

save_config_and_start(config, outcome) ==
    /\ phase = "running"
    /\ nAtt < StartBudget
    /\ nAtt' = nAtt + 1
    /\ file' = write_launcher_config(config, outcome)
    /\ IF outcome = "ok"
       THEN /\ launcher_config' = Some(config)
            /\ att' = [att EXCEPT ![nAtt + 1] =
                         [@ EXCEPT !.origin = "cmd", !.pc = "start", !.cfg = Some(config)]]
       ELSE /\ UNCHANGED launcher_config
            /\ att' = [att EXCEPT ![nAtt + 1] =
                         [@ EXCEPT !.origin = "cmd", !.pc = "rejected",
                                   !.ret = ErrRet("WriteFailed")]]
    /\ UNCHANGED << scope, phase, api_port, child_pid, portOwner, wk, log, events >>

(* ------------------------ update_config (lines 113-126) ---------------- *)
\* a command that, having stored the configuration, stops the workers and
\* withdraws the port so that the backend is started afresh
update_config_restarting(config, outcome) ==
    /\ phase = "running"
    /\ file' = write_launcher_config(config, outcome)
    /\ launcher_config' = IF outcome = "ok" THEN Some(config) ELSE launcher_config
    /\ api_port' = IF outcome = "ok" THEN None ELSE api_port
    /\ wk' = [a \in Att |-> IF outcome = "ok" THEN KillWorker(wk[a]) ELSE wk[a]]
    /\ UNCHANGED << scope, phase, child_pid, portOwner, nAtt, att, log, events >>

update_config(config, outcome) ==
    /\ phase = "running"
    /\ file' = write_launcher_config(config, outcome)
    /\ launcher_config' = IF outcome = "ok" THEN Some(config) ELSE launcher_config
    /\ UNCHANGED << scope, phase, api_port, child_pid, portOwner, nAtt, att, wk,
                    log, events >>

(* ------------- start_backend: locate and spawn (lines 134-164) --------- *)
\* resolve_sidecar_path (lines 55-79): beside the host executable first, then
\* dist/ under the working directory
SidecarProbes == {[bundled |-> b, dev |-> d] : b \in BOOLEAN, d \in BOOLEAN}
resolve_sidecar_path(probe) ==
    IF probe.bundled THEN Some("bundled")
    ELSE IF probe.dev THEN Some("dev")
    ELSE None

\* lines 146-150
publish_pid_skipped(a) == UNCHANGED child_pid
publish_pid(a) == child_pid' = Some(PidOf(a))

\* lines 140-141: both streams are configured as pipes, so spawn fills
\* child.stdout and child.stderr, and take() (lines 154-161) finds them
Stdio == "piped"
take(stdio) == IF stdio = "piped" THEN Some("pipe") ELSE None

\* the child is spawned and its pid published although no executable was found
sidecar_not_found_spawns(a) ==
    /\ att' = [att EXCEPT ![a] = [@ EXCEPT !.pc = "failed", !.handle = "dropped",
                 !.ret = ErrRet("SidecarNotFound"), !.pid = Some(PidOf(a))]]
    /\ wk' = [wk EXCEPT ![a] = DropChild([@ EXCEPT !.proc = "running"])]
    /\ publish_pid(a)
    /\ log' = [log EXCEPT ![a] = LogAfterErr(a, @)]
    /\ events' = [events EXCEPT ![a] = EventsAfterErr(a, "SidecarNotFound")]

\* line 134: `resolve_sidecar_path()?` returns the error before anything else
sidecar_not_found(a) ==
    /\ FailAttempt(a, "SidecarNotFound", wk[a], log[a])
    /\ UNCHANGED child_pid

start_backend_spawn(a, probe, spawned) ==
    /\ phase = "running"
    /\ att[a].pc = "start"
    /\ LET sidecar_path == resolve_sidecar_path(probe) IN
       IF ~IsSome(sidecar_path)
       THEN sidecar_not_found(a)
       ELSE LET started == Append(log[a], Note("Starting backend", 0))
                child == [wk[a] EXCEPT !.proc = "running", !.env = att[a].cfg]
                pid_logged == Append(started, Note("Backend PID", PidOf(a)))
            IN
            IF ~spawned
            THEN /\ FailAttempt(a, "SpawnFailed", wk[a], started)
                 /\ UNCHANGED child_pid
            ELSE IF ~IsSome(take(Stdio))
            THEN /\ publish_pid(a)
                 /\ att' = [att EXCEPT ![a] =
                              [@ EXCEPT !.pc = "failed", !.handle = "dropped",
                                        !.ret = ErrRet("CaptureFailed"),
                                        !.cfg = None,
                                        !.pid = Some(PidOf(a))]]
                 /\ wk' = [wk EXCEPT ![a] = DropChild(child)]
                 /\ log' = [log EXCEPT ![a] = LogAfterErr(a, pid_logged)]
                 /\ events' = [events EXCEPT ![a] = EventsAfterErr(a, "CaptureFailed")]
            ELSE /\ wk' = [wk EXCEPT ![a] = child]
                 /\ publish_pid(a)
                 /\ att' = [att EXCEPT ![a] =
                              [@ EXCEPT !.pc = "handshake", !.handle = "start",
                                        !.cfg = None,
                                        !.pid = Some(PidOf(a))]]
                 /\ log' = [log EXCEPT ![a] = pid_logged]
                 /\ UNCHANGED events
    /\ UNCHANGED << scope, phase, file, launcher_config, api_port, portOwner, nAtt >>

(* ---------------- start_backend: handshake (lines 166-204) ------------ *)
\* a reader's next_line() is ready: a line is buffered or the pipe is at its end
StdoutReady(w) == w.outRead < Len(w.out) \/ w.outClosed
StderrReady(w) == w.errRead < Len(w.err) \/ w.errClosed

\* a handshake that publishes the port and goes on reading stdout for another
publish_ready_keep_reading(a, port, w, idx) ==
    /\ api_port' = Some(port)
    /\ portOwner' = a
    /\ events' = [events EXCEPT ![a] = Append(@, Event("backend-ready", port, ""))]
    /\ log' = [log EXCEPT ![a] = Append(@, Note("Backend ready on port", port))]
    /\ att' = [att EXCEPT ![a] = [@ EXCEPT !.port = Some(port), !.bind = idx]]
    /\ wk' = [wk EXCEPT ![a] = w]

\* lines 198-204, 207 and 233: publish the port, notify, hand the child and both
\* readers to the monitoring task, return Ok(port)
publish_ready(a, port, w, idx) ==
    /\ api_port' = Some(port)
    /\ portOwner' = a
    /\ events' = [events EXCEPT ![a] = Append(@, Event("backend-ready", port, ""))]
    /\ log' = [log EXCEPT ![a] =
                 LogAfterOk(a, Append(@, Note("Backend ready on port", port)), port)]
    /\ att' = [att EXCEPT ![a] =
                 [@ EXCEPT !.pc = "monitoring", !.handle = "monitor",
                           !.port = Some(port), !.bind = idx, !.ret = OkRet(port)]]
    /\ wk' = [wk EXCEPT ![a] = w]

\* a handshake that puts each informational line in front of the earlier ones
handshake_stdout_line_reordered(a, text, w, idx) ==
    LET p == handshake_port(text) IN
    IF IsSome(p)
    THEN publish_ready(a, Unwrap(p), w, idx)
    ELSE /\ log' = [log EXCEPT ![a] =
                      << LogEntry("backend stdout", trim(text), 0) >> \o @]
         /\ wk' = [wk EXCEPT ![a] = w]
         /\ UNCHANGED << att, events, api_port, portOwner >>

\* lines 172-181: Ok(Some(text))
handshake_stdout_line(a, text, w, idx) ==
    LET p == handshake_port(text) IN
    IF IsSome(p)
    THEN publish_ready(a, Unwrap(p), w, idx)
    ELSE /\ log' = [log EXCEPT ![a] =
                      Append(@, LogEntry("backend stdout", trim(text), 0))]
         /\ wk' = [wk EXCEPT ![a] = w]
         /\ UNCHANGED << att, events, api_port, portOwner >>

\* an end of stdout reported like any read error
handshake_stdout_eof_as_read_error(a, w) ==
    /\ FailAttempt(a, "StdoutReadError", w, log[a])
    /\ UNCHANGED << api_port, portOwner >>

\* lines 182-184: Ok(None)
handshake_stdout_eof(a, w) ==
    /\ FailAttempt(a, "ExitedBeforePort", w, log[a])
    /\ UNCHANGED << api_port, portOwner >>

\* lines 185-187: Err(e)
handshake_stdout_err(a, w) ==
    /\ FailAttempt(a, "StdoutReadError", w, log[a])
    /\ UNCHANGED << api_port, portOwner >>

\* the stdout branch of the select (lines 170-189)
HandshakeStdout(a) ==
    /\ phase = "running"
    /\ att[a].pc = "handshake"
    /\ StdoutReady(wk[a])
    /\ LET w == wk[a] IN
       IF w.outRead < Len(w.out)
       THEN LET text == w.out[w.outRead + 1]
                rest == [w EXCEPT !.outRead = @ + 1]
            IN  IF text.utf8
                THEN handshake_stdout_line(a, text, rest, w.outRead + 1)
                ELSE handshake_stdout_err(a, rest)
       ELSE handshake_stdout_eof(a, w)
    /\ UNCHANGED << scope, phase, file, launcher_config, child_pid, nAtt >>

\* a handshake that gives up when stderr ends or cannot be read
handshake_stderr_strict(a, line, w) ==
    IF IsSome(line) /\ Unwrap(line).utf8
    THEN /\ wk' = [wk EXCEPT ![a] = w]
         /\ log' = [log EXCEPT ![a] =
                      Append(@, LogEntry("backend stderr", trim(Unwrap(line)), 0))]
         /\ UNCHANGED << att, events, api_port, portOwner >>
    ELSE /\ FailAttempt(a, "StderrClosed", w, log[a])
         /\ UNCHANGED << api_port, portOwner >>

\* lines 191-193: only Ok(Some(text)) is acted on
handshake_stderr(a, line, w) ==
    /\ wk' = [wk EXCEPT ![a] = w]
    /\ log' = [log EXCEPT ![a] =
                 IF IsSome(line) /\ Unwrap(line).utf8
                 THEN Append(@, LogEntry("backend stderr", trim(Unwrap(line)), 0))
                 ELSE @]
    /\ UNCHANGED << att, events, api_port, portOwner >>

\* a handshake that tests stderr lines for a port as it tests stdout lines
HandshakeStderr_binding(a) ==
    /\ phase = "running"
    /\ att[a].pc = "handshake"
    /\ StderrReady(wk[a])
    /\ LET w == wk[a] IN
       IF w.errRead < Len(w.err)
       THEN LET text == w.err[w.errRead + 1]
                rest == [w EXCEPT !.errRead = @ + 1]
            IN  IF text.utf8 /\ IsSome(handshake_port(text))
                THEN publish_ready(a, Unwrap(handshake_port(text)), rest, 0)
                ELSE handshake_stderr(a, Some(text), rest)
       ELSE handshake_stderr(a, None, w)
    /\ UNCHANGED << scope, phase, file, launcher_config, child_pid, nAtt >>

\* the stderr branch of the select (lines 190-194)
HandshakeStderr(a) ==
    /\ phase = "running"
    /\ att[a].pc = "handshake"
    /\ StderrReady(wk[a])
    /\ LET w == wk[a] IN
       IF w.errRead < Len(w.err)
       THEN handshake_stderr(a, Some(w.err[w.errRead + 1]), [w EXCEPT !.errRead = @ + 1])
       ELSE handshake_stderr(a, None, w)
    /\ UNCHANGED << scope, phase, file, launcher_config, child_pid, nAtt >>

(* ------------- the monitoring task (lines 207-231) --------------------- *)
\* `break`: the task ends and drops the child and both readers
end_monitor(a, w, entries) ==
    /\ att' = [att EXCEPT ![a] = [@ EXCEPT !.pc = "exited", !.handle = "dropped"]]
    /\ wk' = [wk EXCEPT ![a] = DropChild(w)]
    /\ log' = [log EXCEPT ![a] = entries]

\* a loop that breaks at the end of a stream only, and reads on after a line it
\* could not read
monitor_line_skipping_errors(a, line, w) ==
    IF IsSome(line)
    THEN /\ log' = [log EXCEPT ![a] =
                      IF Unwrap(line).utf8
                      THEN Append(@, LogEntry("backend", trim(Unwrap(line)), 0))
                      ELSE @]
         /\ wk' = [wk EXCEPT ![a] = w]
         /\ UNCHANGED att
    ELSE end_monitor(a, w, log[a])

\* lines 211-214 and 217-220: Ok(Some(text)) is logged, anything else breaks
monitor_line(a, line, w) ==
    IF IsSome(line) /\ Unwrap(line).utf8
    THEN /\ log' = [log EXCEPT ![a] = Append(@, LogEntry("backend", trim(Unwrap(line)), 0))]
         /\ wk' = [wk EXCEPT ![a] = w]
         /\ UNCHANGED att
    ELSE end_monitor(a, w, log[a])

MonitorStdout(a) ==
    /\ phase = "running"
    /\ att[a].pc = "monitoring"
    /\ StdoutReady(wk[a])
    /\ LET w == wk[a] IN
       IF w.outRead < Len(w.out)
       THEN monitor_line(a, Some(w.out[w.outRead + 1]), [w EXCEPT !.outRead = @ + 1])
       ELSE monitor_line(a, None, w)
    /\ UNCHANGED << scope, phase, file, launcher_config, api_port, child_pid,
                    portOwner, nAtt, events >>

MonitorStderr(a) ==
    /\ phase = "running"
    /\ att[a].pc = "monitoring"
    /\ StderrReady(wk[a])
    /\ LET w == wk[a] IN
       IF w.errRead < Len(w.err)
       THEN monitor_line(a, Some(w.err[w.errRead + 1]), [w EXCEPT !.errRead = @ + 1])
       ELSE monitor_line(a, None, w)
    /\ UNCHANGED << scope, phase, file, launcher_config, api_port, child_pid,
                    portOwner, nAtt, events >>

\* lines 222-228: child.wait() resolves once the process has terminated
monitor_wait(a, waited) ==
    end_monitor(a, wk[a],
        Append(log[a], IF waited THEN Note("Process exited", wk[a].status)
                       ELSE Note("Wait error", 0)))

MonitorWait(a, waited) ==
    /\ phase = "running"
    /\ att[a].pc = "monitoring"
    /\ wk[a].proc \in {"exited", "killed"}
    /\ monitor_wait(a, waited)
    /\ UNCHANGED << scope, phase, file, launcher_config, api_port, child_pid,
                    portOwner, nAtt, events >>

(* ------------------------------ the worker ----------------------------- *)
WorkerWriteStdout(a, line) ==
    /\ wk[a].proc = "running"
    /\ ~wk[a].outClosed
    /\ Len(wk[a].out) < OutBudget
    /\ wk' = [wk EXCEPT ![a] = [@ EXCEPT !.out = Append(@, line)]]
    /\ UNCHANGED << scope, phase, file, launcher_config, api_port, child_pid,
                    portOwner, nAtt, att, log, events >>

WorkerWriteStderr(a, line) ==
    /\ wk[a].proc = "running"
    /\ ~wk[a].errClosed
    /\ Len(wk[a].err) < ErrBudget
    /\ wk' = [wk EXCEPT ![a] = [@ EXCEPT !.err = Append(@, line)]]
    /\ UNCHANGED << scope, phase, file, launcher_config, api_port, child_pid,
                    portOwner, nAtt, att, log, events >>

\* the worker closes one of its streams and keeps running
WorkerCloseStdout(a) ==
    /\ wk[a].proc = "running"
    /\ ~wk[a].outClosed
    /\ wk' = [wk EXCEPT ![a] = [@ EXCEPT !.outClosed = TRUE]]
    /\ UNCHANGED << scope, phase, file, launcher_config, api_port, child_pid,
                    portOwner, nAtt, att, log, events >>

WorkerCloseStderr(a) ==
    /\ wk[a].proc = "running"
    /\ ~wk[a].errClosed
    /\ wk' = [wk EXCEPT ![a] = [@ EXCEPT !.errClosed = TRUE]]
    /\ UNCHANGED << scope, phase, file, launcher_config, api_port, child_pid,
                    portOwner, nAtt, att, log, events >>

\* the worker terminates by itself: both pipes reach their end
WorkerExit(a, status) ==
    /\ wk[a].proc = "running"
    /\ wk' = [wk EXCEPT ![a] = [@ EXCEPT !.proc = "exited", !.status = status,
                                         !.outClosed = TRUE, !.errClosed = TRUE]]
    /\ UNCHANGED << scope, phase, file, launcher_config, api_port, child_pid,
                    portOwner, nAtt, att, log, events >>

(* ---------------------------- host teardown ---------------------------- *)
\* the host goes down: every task is dropped, and with it the child it owns
HostShutdown ==
    /\ phase = "running"
    /\ phase' = "down"
    /\ att' = [a \in Att |->
                 IF att[a].handle \in {"start", "monitor"}
                 THEN [att[a] EXCEPT !.handle = "dropped"] ELSE att[a]]
    /\ wk' = [a \in Att |->
                IF att[a].handle \in {"start", "monitor"} THEN DropChild(wk[a]) ELSE wk[a]]
    /\ UNCHANGED << scope, file, launcher_config, api_port, child_pid, portOwner,
                    nAtt, log, events >>

(* ------------------------------ behaviours ----------------------------- *)
Next ==
    \/ Setup
    \/ \E c \in Configs, o \in WriteOutcomes : save_config_and_start(c, o)
    \/ \E c \in Configs, o \in WriteOutcomes : update_config(c, o)
    \/ \E a \in Att, probe \in SidecarProbes, spawned \in BOOLEAN :
          start_backend_spawn(a, probe, spawned)
    \/ \E a \in Att : HandshakeStdout(a)
    \/ \E a \in Att : HandshakeStderr(a)
    \/ \E a \in Att : MonitorStdout(a)
    \/ \E a \in Att : MonitorStderr(a)
    \/ \E a \in Att, waited \in BOOLEAN : MonitorWait(a, waited)
    \/ \E a \in Att, line \in StdoutLines : WorkerWriteStdout(a, line)
    \/ \E a \in Att, line \in StderrLines : WorkerWriteStderr(a, line)
    \/ \E a \in Att : WorkerCloseStdout(a)
    \/ \E a \in Att : WorkerCloseStderr(a)
    \/ \E a \in Att, status \in ExitStatuses : WorkerExit(a, status)
    \/ HostShutdown

\* one worker from the startup auto-start, no commands from the user, and the
\* host stays up
NextIO ==
    \/ Setup
    \/ \E a \in Att, probe \in SidecarProbes, spawned \in BOOLEAN :
          start_backend_spawn(a, probe, spawned)
    \/ \E a \in Att : HandshakeStdout(a)
    \/ \E a \in Att : HandshakeStderr(a)
    \/ \E a \in Att : MonitorStdout(a)
    \/ \E a \in Att : MonitorStderr(a)
    \/ \E a \in Att, waited \in BOOLEAN : MonitorWait(a, waited)
    \/ \E a \in Att, line \in StdoutLines : WorkerWriteStdout(a, line)
    \/ \E a \in Att, line \in StderrLines : WorkerWriteStderr(a, line)
    \/ \E a \in Att : WorkerCloseStdout(a)
    \/ \E a \in Att : WorkerCloseStderr(a)
    \/ \E a \in Att, status \in ExitStatuses : WorkerExit(a, status)

Spec == Init /\ [][Next]_vars
SpecIO == InitIO /\ [][NextIO]_vars

\* one start attempt, every command, two configurations to enter
SpecCfg == InitCfg /\ [][Next]_vars

\* tokio::select! polls its ready branches in random order: a branch that stays
\* ready is eventually taken (the run has one worker, so one select loop)
LiveIO ==
    /\ InitLive
    /\ [][NextIO]_vars
    /\ WF_vars(\E a \in Att : HandshakeStdout(a))

(* ------------------------------- claims -------------------------------- *)
Unread(w) == (w.outRead + 1)..Len(w.out)
IsHandshakeLine(text) == text.utf8 /\ IsSome(handshake_port(text))

\* the attempt has published its port and emitted backend-ready
Ready(a) ==
    /\ att[a].ret.tag = "Ok"
    /\ IsSome(att[a].port)
    /\ \E i \in 1..Len(events[a]) : events[a][i].name = "backend-ready"

\* a handshake line waits in the stdout pipe, behind readable lines only
HandshakeLineQueued(a) ==
    /\ att[a].pc = "handshake"
    /\ \E i \in Unread(wk[a]) :
          /\ IsHandshakeLine(wk[a].out[i])
          /\ \A j \in Unread(wk[a]) : j < i => wk[a].out[j].utf8

\* C1: once a handshake line (a JSON object whose port is a non-negative
\* integer) is in the worker's stdout pipe, start_backend reaches Ready, whatever
\* stderr lines are pending or arrive, readable or not, and also when stderr is
\* already at its end. (The run has one worker: "some attempt" is that one.)
C1_StderrNeverBlocksHandshake ==
    (\E a \in Att : HandshakeLineQueued(a)) ~> (\E a \in Att : Ready(a))


Count(seq, Test(_)) == Len(SelectSeq(seq, Test))
IsHandshakeStderrEntry(e) == e.tag = "backend stderr"
IsHandshakeStdoutEntry(e) == e.tag = "backend stdout"
IsReadyEvent(e) == e.name = "backend-ready"
IsErrorEvent(e) == e.name = "backend-error"

\* C1 happens: an attempt became Ready after two stderr lines were forwarded
\* during its handshake, and the worker's stderr is at its end
C1_Witness ==
    \E a \in Att :
        /\ Ready(a)
        /\ Count(log[a], IsHandshakeStderrEntry) >= 2
        /\ wk[a].errClosed

(* C2 *)
\* the integer the binding handshake line carries under "port"
BindingPortField(a) == Unwrap(wk[a].out[att[a].bind].port).n

\* C2: the port start_backend stores in api_port, carries in backend-ready and
\* returns equals the integer value of the port field of the binding handshake
\* line, for every non-negative integer that field holds.
C2_PortEqualsHandshakeField ==
    \A a \in Att :
        att[a].bind > 0 =>
            /\ att[a].port = Some(BindingPortField(a))
            /\ att[a].ret = OkRet(BindingPortField(a))
            /\ \A i \in 1..Len(events[a]) :
                  IsReadyEvent(events[a][i]) => events[a][i].port = BindingPortField(a)
            /\ (portOwner = a => api_port = Some(BindingPortField(a)))

(* C3 *)
\* stdout lines the handshake loop has consumed
HandshakeRead(a) ==
    IF att[a].bind > 0 THEN att[a].bind
    ELSE IF att[a].pc \in {"handshake", "failed"} THEN wk[a].outRead
    ELSE 0

\* the informational lines among them, trimmed, in the order they were written
RECURSIVE Informational(_, _)
Informational(lines, n) ==
    IF n = 0 THEN << >>
    ELSE LET before == Informational(lines, n - 1) IN
         IF lines[n].utf8 /\ ~IsHandshakeLine(lines[n])
         THEN Append(before, trim(lines[n]))
         ELSE before

RECURSIVE TextsOf(_)
TextsOf(entries) ==
    IF entries = << >> THEN << >>
    ELSE << Head(entries).text >> \o TextsOf(Tail(entries))

FirstHandshakeLine(a, i) ==
    /\ i \in 1..Len(wk[a].out)
    /\ IsHandshakeLine(wk[a].out[i])
    /\ \A j \in 1..(i - 1) : ~IsHandshakeLine(wk[a].out[j])

C3_Order(a) ==
    /\ TextsOf(SelectSeq(log[a], IsHandshakeStdoutEntry))
         = Informational(wk[a].out, HandshakeRead(a))
    /\ \A i, j \in 1..Len(log[a]) :
          (log[a][i].tag = "backend stdout" /\ log[a][j].tag = "Backend ready on port")
              => i < j
    /\ att[a].bind > 0 =>
          /\ FirstHandshakeLine(a, att[a].bind)
          /\ att[a].port = handshake_port(wk[a].out[att[a].bind])

C3_ReadyAfterAllForwarded(a) ==
    /\ Ready(a)
    /\ FirstHandshakeLine(a, att[a].bind)
    /\ TextsOf(SelectSeq(log[a], IsHandshakeStdoutEntry))
         = Informational(wk[a].out, att[a].bind - 1)

StdoutEndedWithoutHandshake(a) ==
    /\ att[a].pc \notin {"idle", "start", "handshake"}
    /\ wk[a].outClosed
    /\ wk[a].outRead = Len(wk[a].out)
    /\ \A i \in 1..Len(wk[a].out) :
          wk[a].out[i].utf8 /\ ~IsHandshakeLine(wk[a].out[i])

\* C4: when stdout ends before any line matched, the attempt is Failed with the
\* "exited before sending port" error; it has published no port and emitted no
\* backend-ready event, whatever it read before.
C4_StdoutClosedFailsWithoutPort ==
    \A a \in Att :
        StdoutEndedWithoutHandshake(a) =>
            /\ att[a].pc = "failed"
            /\ att[a].ret = ErrRet("ExitedBeforePort")
            /\ att[a].port = None
            /\ portOwner /= a
            /\ Count(events[a], IsReadyEvent) = 0

\* C4 happens: stdout ended after an informational line and a forwarded stderr line
C4_Witness ==
    \E a \in Att :
        /\ StdoutEndedWithoutHandshake(a)
        /\ Len(wk[a].out) >= 1
        /\ Count(log[a], IsHandshakeStderrEntry) >= 1


(* C5 *)
\* start_backend has returned for this attempt
Completed(a) == att[a].pc \in {"monitoring", "exited", "failed"}

\* C5 as stated: every start attempt, from setup or from save_config_and_start,
\* emits exactly one host event: backend-ready if it succeeds, backend-error if
\* it fails.
C5_ExactlyOneEventPerAttempt ==
    \A a \in Att :
        Completed(a) =>
            /\ Len(events[a]) = 1
            /\ att[a].ret.tag = "Ok" => IsReadyEvent(events[a][1])
            /\ att[a].ret.tag = "Err" => IsErrorEvent(events[a][1])

\* C5 as amended: a successful attempt emits exactly one backend-ready event; a
\* failed attempt emits exactly one backend-error event when setup began it and
\* no event when save_config_and_start began it (the error is the command's
\* result); no attempt emits both, and none emits before it has finished.
C5_OneEventOrReturnedError ==
    \A a \in Att :
        events[a] =
            IF ~Completed(a) THEN << >>
            ELSE IF att[a].ret.tag = "Ok"
                 THEN << Event("backend-ready", att[a].ret.port, "") >>
            ELSE IF att[a].origin = "auto"
                 THEN << Event("backend-error", 0, att[a].ret.err) >>
            ELSE << >>

\* C5 happens: the attempt begun by setup failed with its one backend-error
\* event, and one begun by save_config_and_start failed with none
C5_Witness ==
    \E a, b \in Att :
        /\ att[a].origin = "auto" /\ att[a].pc = "failed"
        /\ Count(events[a], IsErrorEvent) = 1
        /\ att[b].origin = "cmd" /\ att[b].pc = "failed"
        /\ events[b] = << >>

(* C6 *)
IsExitEntry(e) == e.tag \in {"Process exited", "Wait error"}

\* C6: after Ready, once the worker has terminated by itself and the monitoring
\* loop has ended (Exited), the termination status or the wait error is in the
\* log, in whatever order the loop observed the end of stdout, the end of stderr
\* and the completion of wait.
C6_ExitStatusLogged ==
    \A a \in Att :
        (att[a].pc = "exited" /\ wk[a].proc = "exited")
            => Count(log[a], IsExitEntry) = 1

(* C7 *)
\* C7: once Ready, no read error and no stream ending makes the supervisor
\* terminate the worker: a worker that has not exited by itself keeps running
\* while the host is up.
C7_NoKillAfterReady ==
    \A a \in Att : Ready(a) => wk[a].proc /= "killed"

C9_AtMostOneWorkerAlive ==
    Cardinality({a \in Att : wk[a].proc = "running"}) <= 1

(* C10 *)
\* C10: a worker that was spawned has its pid published, so an attempt awaiting
\* its handshake already has a pid in AppState, and a published port implies a
\* published pid.
C10_PidPublishedBeforePort ==
    /\ IsSome(get_api_port) => IsSome(child_pid)
    /\ \A a \in Att :
          /\ wk[a].proc /= "none" => IsSome(child_pid)
          /\ IsSome(att[a].port) => IsSome(att[a].pid)
          /\ att[a].pc = "handshake" => att[a].pid = Some(PidOf(a))

\* C10 happens: while an attempt awaits its handshake, its pid is in AppState and
\* get_api_port answers None
C10_Witness ==
    \E a \in Att :
        /\ att[a].pc = "handshake"
        /\ child_pid = Some(PidOf(a))
        /\ get_api_port = None

(* C11 *)
\* a step of start_backend in which neither place holds the worker executable
SidecarNotFoundStep(a) ==
    \E probe \in SidecarProbes, spawned \in BOOLEAN :
        /\ ~IsSome(resolve_sidecar_path(probe))
        /\ start_backend_spawn(a, probe, spawned)

\* C11: when the worker executable is found in neither place, the start attempt
\* ends in Failed with the not-found error and no process is created: the step
\* leaves every worker, child_pid and api_port as they were, and the attempt
\* never has a worker, a pid, a port or a backend-ready event.
C11_NotFoundFailsWithoutProcess ==
    /\ [][\A a \in Att :
            SidecarNotFoundStep(a) =>
                /\ att'[a].pc = "failed"
                /\ att'[a].ret = ErrRet("SidecarNotFound")
                /\ wk' = wk
                /\ child_pid' = child_pid
                /\ api_port' = api_port
                /\ Count(events'[a], IsReadyEvent) = 0]_vars
    /\ [](\A a \in Att :
            att[a].ret = ErrRet("SidecarNotFound") =>
                /\ att[a].pc = "failed"
                /\ wk[a].proc = "none"
                /\ att[a].pid = None /\ att[a].port = None
                /\ portOwner /= a
                /\ Count(events[a], IsReadyEvent) = 0)

\* C11 happens: save_config_and_start wrote the configuration, its start attempt
\* found no executable, and AppState holds neither a pid nor a port
C11_Witness ==
    \E a \in Att :
        /\ att[a].origin = "cmd"
        /\ att[a].ret = ErrRet("SidecarNotFound")
        /\ wk[a].proc = "none"
        /\ IsSome(launcher_config)
        /\ child_pid = None /\ get_api_port = None

(* C12 *)
IsReadyEntry(e) == e.tag = "Backend ready on port"
IsMonitorEntry(e) == e.tag = "backend"

\* the attempt is bound to the first handshake line of its stdout, and to it alone
BoundOnce(a) ==
    /\ FirstHandshakeLine(a, att[a].bind)
    /\ att[a].port = handshake_port(wk[a].out[att[a].bind])
    /\ api_port = att[a].port
    /\ events[a] = << Event("backend-ready", Unwrap(att[a].port), "") >>
    /\ Count(log[a], IsReadyEntry) = 1
    /\ Count(log[a], IsMonitorEntry) <= (wk[a].outRead - att[a].bind) + wk[a].errRead

\* C12: one stdout line per start attempt is binding. The first handshake line
\* (a JSON object whose port is a non-negative integer) sets the port; api_port
\* is written once, one backend-ready event is emitted, and from then on the
\* binding, api_port and the events never change: every later stdout line the
\* monitoring loop reads, a handshake line with another port included, is
\* appended to the log and does nothing else. (One worker in the run.)
C12_ExactlyOneBindingLine ==
    /\ [](\A a \in Att :
            IF att[a].bind > 0 THEN BoundOnce(a)
            ELSE /\ att[a].port = None /\ portOwner /= a
                 /\ Count(events[a], IsReadyEvent) = 0)
    /\ [](IsSome(api_port) => \E a \in Att : portOwner = a /\ att[a].bind > 0)
    /\ [][\A a \in Att :
            att[a].bind > 0 =>
                /\ att'[a].bind = att[a].bind
                /\ att'[a].port = att[a].port
                /\ api_port' = api_port
                /\ events'[a] = events[a]
                /\ (wk'[a].outRead > wk[a].outRead /\ wk[a].out[wk'[a].outRead].utf8)
                      => log'[a] = Append(log[a],
                            LogEntry("backend", trim(wk[a].out[wk'[a].outRead]), 0))]_vars

\* C12 happens: after the binding line the monitoring loop read a second
\* handshake line announcing another port and logged it; api_port still holds
\* the first port
C12_Witness ==
    \E a \in Att :
        /\ att[a].bind > 0
        /\ wk[a].outRead > att[a].bind
        /\ LET later == wk[a].out[att[a].bind + 1] IN
              /\ IsHandshakeLine(later)
              /\ handshake_port(later) /= att[a].port
              /\ \E i \in 1..Len(log[a]) :
                    log[a][i] = LogEntry("backend", trim(later), 0)
        /\ get_api_port = att[a].port

(* C13 *)
\* the first n lines of a stream that can be read, trimmed, in the order written
RECURSIVE ReadableTrimmed(_, _)
ReadableTrimmed(lines, n) ==
    IF n = 0 THEN << >>
    ELSE LET before == ReadableTrimmed(lines, n - 1) IN
         IF lines[n].utf8 THEN Append(before, trim(lines[n])) ELSE before

\* the "[backend stderr]" entries of the attempt's log
StderrForwarded(a) == TextsOf(SelectSeq(log[a], IsHandshakeStderrEntry))

\* C13: stderr takes no part in the handshake decision. While an attempt awaits
\* its handshake (and when it has failed there) the "[backend stderr]" entries
\* of its log are exactly the stderr lines it read, trimmed, in order; a step
\* that reads a stderr line during the handshake, a handshake line included,
\* changes nothing but the log; and an attempt is Ready only through a handshake
\* line of its stdout.
C13_StderrOnlyLogged ==
    /\ [](\A a \in Att :
            /\ att[a].pc \in {"handshake", "failed"}
                  => StderrForwarded(a) = ReadableTrimmed(wk[a].err, wk[a].errRead)
            /\ \E k \in 0..wk[a].errRead :
                  StderrForwarded(a) = ReadableTrimmed(wk[a].err, k)
            /\ (Ready(a) \/ IsSome(att[a].port) \/ portOwner = a
                   \/ Count(events[a], IsReadyEvent) > 0)
                  => att[a].bind > 0 /\ IsHandshakeLine(wk[a].out[att[a].bind]))
    /\ [][\A a \in Att :
            (att[a].pc = "handshake" /\ wk'[a].errRead > wk[a].errRead) =>
                /\ att'[a] = att[a]
                /\ UNCHANGED << api_port, portOwner, child_pid, events >>
                /\ wk[a].err[wk'[a].errRead].utf8
                      => log'[a] = Append(log[a],
                            LogEntry("backend stderr", trim(wk[a].err[wk'[a].errRead]), 0))]_vars

\* C13 happens: the handshake read a stderr line that is a JSON object with an
\* integer port and forwarded it; the attempt still awaits its handshake, no
\* port is published and no event was emitted
C13_Witness ==
    \E a \in Att :
        /\ att[a].pc = "handshake"
        /\ wk[a].errRead >= 1
        /\ IsHandshakeLine(wk[a].err[1])
        /\ StderrForwarded(a) = << trim(wk[a].err[1]) >>
        /\ get_api_port = None
        /\ events[a] = << >>

(* C14 *)
\* the step in which save_config_and_start takes up attempt a
SaveStep(a) == att[a].pc = "idle" /\ att'[a].origin = "cmd"

\* C14: save_config_and_start persists, then starts. When it goes on to start
\* the backend, launcher.json holds the configuration it was given and so does
\* launcher_config; when the write fails it returns the write error and leaves
\* launcher_config, api_port, child_pid and every worker as they were. A worker
\* is spawned only by an attempt that got past the write, with that
\* configuration, and an attempt that returned the write error never has one.
C14_PersistThenStart ==
    /\ [][\A a \in Att :
            /\ SaveStep(a) =>
                  /\ wk' = wk
                  /\ UNCHANGED << api_port, child_pid >>
                  /\ IF att'[a].pc = "start"
                     THEN \E c \in Configs :
                             /\ att'[a].cfg = Some(c)
                             /\ file' = Some(to_string_pretty(c))
                             /\ launcher_config' = Some(c)
                     ELSE /\ att'[a].pc = "rejected"
                          /\ att'[a].ret = ErrRet("WriteFailed")
                          /\ launcher_config' = launcher_config
            /\ (wk[a].proc = "none" /\ wk'[a].proc /= "none") =>
                  /\ att[a].pc = "start"
                  /\ wk'[a].env = att[a].cfg
            /\ att[a].pc = "rejected" => att'[a] = att[a]]_vars
    /\ [](\A a \in Att :
            att[a].pc = "rejected" =>
                /\ wk[a].proc = "none"
                /\ att[a].pid = None /\ att[a].port = None
                /\ events[a] = << >>)

\* C14 happens: save_config_and_start returned the write error; launcher_config
\* still holds the configuration an earlier update_config stored, and there is
\* no worker, no pid and no port
C14_Witness ==
    \E a \in Att :
        /\ att[a].pc = "rejected"
        /\ att[a].ret = ErrRet("WriteFailed")
        /\ IsSome(get_launcher_config)
        /\ wk[a].proc = "none"
        /\ child_pid = None /\ get_api_port = None

(* C15 *)
\* a step of update_config that had an effect: launcher.json or launcher_config
\* changes and no start attempt is taken up
UpdateStep ==
    /\ nAtt' = nAtt
    /\ file' /= file \/ launcher_config' /= launcher_config

\* the step replaced launcher.json by the document of configuration c
Wrote(c) == file' /= file /\ file' = Some(to_string_pretty(c))

\* C15: update_config persists and does nothing else. Whatever the attempts are
\* doing, its step leaves every attempt, every worker, the events, the log,
\* api_port and child_pid as they were; after a successful write launcher_config
\* is the configuration written, and after a failed one it is what it was.
C15_UpdatePersistsOnly ==
    [][UpdateStep =>
          /\ UNCHANGED << att, wk, events, log, api_port, child_pid, portOwner, phase >>
          /\ \A c \in Configs : Wrote(c) => launcher_config' = Some(c)
          /\ (\A c \in Configs : ~Wrote(c)) => launcher_config' = launcher_config]_vars

\* C15 happens: a worker started with one configuration is being monitored and
\* runs on, with its pid and port published, while launcher_config and
\* launcher.json hold another configuration stored by update_config
C15_Witness ==
    \E a \in Att :
        /\ att[a].pc = "monitoring"
        /\ wk[a].proc = "running"
        /\ IsSome(get_launcher_config)
        /\ get_launcher_config /= wk[a].env
        /\ read_launcher_config = get_launcher_config
        /\ child_pid = Some(PidOf(a))
        /\ get_api_port = att[a].port
        /\ Len(events[a]) = 1

(* C16 *)
\* C16 as stated: needs_setup answers true exactly when launcher.json does not
\* exist.
C16_NeedsSetupIffNoFile == needs_setup <=> ~IsSome(file)

\* launcher.json holds the document of a configuration record
HoldsConfig == \E c \in AllConfigs : file = Some(to_string_pretty(c))

\* C16 as amended: needs_setup answers true exactly when read_launcher_config
\* answers None, that is when launcher.json does not exist or does not hold a
\* configuration record; with no file, read_launcher_config answers None and
\* needs_setup true.
C16_NeedsSetupIffNoStoredConfig ==
    /\ needs_setup <=> ~HoldsConfig
    /\ needs_setup <=> (read_launcher_config = None)
    /\ ~IsSome(file) => (read_launcher_config = None /\ needs_setup)

\* C16 happens: a write that failed half-way left a launcher.json that holds no
\* configuration record, and needs_setup answers true while launcher_config
\* still holds the record loaded before
C16_Witness ==
    /\ phase = "running"
    /\ IsSome(file)
    /\ ~HoldsConfig
    /\ needs_setup
    /\ IsSome(get_launcher_config)

(* C17 *)
\* a command writes configuration c to launcher.json, and the write succeeds
WriteStep(c) == update_config(c, "ok") \/ save_config_and_start(c, "ok")

MonitorTurn(a) ==
    /\ att[a].pc = "monitoring"
    /\ \/ wk'[a].outRead > wk[a].outRead
       \/ wk'[a].errRead > wk[a].errRead
       \/ log'[a] /= log[a]
       \/ att'[a] /= att[a]

\* the line the turn consumed, if it consumed one
Consumed(a) ==
    IF wk'[a].outRead > wk[a].outRead THEN Some(wk[a].out[wk'[a].outRead])
    ELSE IF wk'[a].errRead > wk[a].errRead THEN Some(wk[a].err[wk'[a].errRead])
    ELSE None

\* C18: the monitoring loop ends at the first end it meets. A turn that reads a
\* line logs it and goes on; any other turn (a stream at its end, a read error,
\* the process terminated) ends the loop at once, whatever the state of the
\* other two; and once the loop has ended, the attempt reads no line and writes
\* no log entry any more.
C18_FirstEndStopsMonitoring ==
    [][\A a \in Att :
          /\ MonitorTurn(a) =>
                IF IsSome(Consumed(a)) /\ Unwrap(Consumed(a)).utf8
                THEN /\ att'[a] = att[a]
                     /\ log'[a] = Append(log[a],
                                     LogEntry("backend", trim(Unwrap(Consumed(a))), 0))
                ELSE att'[a].pc = "exited"
          /\ att[a].pc = "exited" =>
                /\ att'[a] = att[a]
                /\ log'[a] = log[a]
                /\ wk'[a].outRead = wk[a].outRead
                /\ wk'[a].errRead = wk[a].errRead]_vars

\* C18 happens: the loop ended on stderr while the worker was running (the drop
\* of the child killed it) and a stdout line was still unread; the status was
\* not waited for and the line is not in the log
C18_Witness ==
    \E a \in Att :
        /\ att[a].pc = "exited"
        /\ wk[a].proc = "killed"
        /\ wk[a].errRead = Len(wk[a].err)
        /\ wk[a].outRead < Len(wk[a].out)
        /\ wk[a].out[Len(wk[a].out)].utf8
        /\ Count(log[a], IsExitEntry) = 0
        /\ Count(log[a], IsMonitorEntry) = 0

(* C19 *)
\* C19: whenever AppState holds both a port and a pid, the pid is that of the
\* worker whose handshake published the port, also when start attempts overlap.
C19_PortAndPidOfSameWorker ==
    (IsSome(get_api_port) /\ IsSome(child_pid)) => child_pid = Some(PidOf(portOwner))

(* C20 *)
\* the errors start_backend returns once the child exists
AfterSpawnErrors == {"CaptureFailed", "ExitedBeforePort", "StdoutReadError"}

\* C20: a start attempt that failed after its worker was spawned has dropped the
\* process handle and its worker is not running, whether the worker had exited,
\* had only closed its stdout or had written a line that could not be read;
\* child_pid still holds the pid published at the spawn and api_port is unset.
\* (One worker in the run.)
C20_FailedAttemptLeavesNoWorker ==
    \A a \in Att :
        (att[a].pc = "failed" /\ IsSome(att[a].pid)) =>
            /\ att[a].ret.tag = "Err" /\ att[a].ret.err \in AfterSpawnErrors
            /\ att[a].handle = "dropped"
            /\ wk[a].proc \in {"exited", "killed"}
            /\ child_pid = att[a].pid
            /\ get_api_port = None

\* C20 happens: the worker wrote a stdout line that could not be read and kept
\* running; the attempt failed, the worker was killed, and child_pid still holds
\* its pid
C20_Witness ==
    \E a \in Att :
        /\ att[a].pc = "failed"
        /\ att[a].ret = ErrRet("StdoutReadError")
        /\ wk[a].proc = "killed"
        /\ child_pid = Some(PidOf(a))


====
